---- MODULE Spec2Model ----
(***************************************************************************)
(* Model of the A2A messaging and coordination layer of householdhub:      *)
(*   - backend/a2a/broker.py      A2ABroker (receive loop, idempotency     *)
(*                                cache, handler dispatch, responses)      *)
(*   - backend/common/schemas.py  AgentType, IntentType, A2AMessage,       *)
(*                                A2AResponse                              *)
(*   - backend/orchestrator/main.py  IntentRouter, ResponseComposer,       *)
(*                                OrchestratorAgent.process_query_streaming*)
(* Three specifications share the module:                                  *)
(*   Spec       one broker's receive loop fed by a publishing environment  *)
(*   SpecOrch   one streamed query of the orchestrator                     *)
(*   SpecRoute  detect_intent / get_agent_routing applied to query texts   *)
(***************************************************************************)
EXTENDS Integers, Sequences, FiniteSets, TLC

(***************************************************************************)
(* Bounds of the model.                                                    *)
(***************************************************************************)
\* clock ticks per hour (granularity of datetime.utcnow() in the model)
HOUR == 2
\* the broker clock runs from 0 to MaxTime ticks
MaxTime == 2
\* deliveries the receive loop takes in one behaviour
MaxDeliveries == 2
\* words in a query text
MaxWords == 3
\* calls of publish / publish_response a sender makes
MaxCalls == 2
\* an agent call takes a multiple of DelayStep seconds, up to MaxDelaySteps of them
DelayStep == 15
MaxDelaySteps == 3

(***************************************************************************)
(* common/schemas.py                                                       *)
(***************************************************************************)
\* AgentType: the values of the enum, in declaration order
AgentType == << "orchestrator", "nl2sql", "vector", "api", "frontend" >>

\* IntentType: the values of the enum, in declaration order
IntentType ==
  << "TopCash", "CashBalance", "CRMPOI", "Custodial18", "Recon",
     "ExecSummary", "MissingBen", "RMD", "IRAReminder", "PerfSummary" >>

\* IntentType: the member names, in declaration order
IntentTypeNames ==
  << "TOP_CASH", "CASH_BALANCE", "CRM_POI", "CUSTODIAL_18", "RECON",
     "EXEC_SUMMARY", "MISSING_BEN", "RMD", "IRA_REMINDER", "PERF_SUMMARY" >>

Range(s) == { s[i] : i \in 1..Len(s) }

AgentTypeValues == Range(AgentType)

IntentTypeValues == Range(IntentType)

\* position of a value in an enum's declaration order (0 when absent)
IndexOf(seq, v) ==
  IF \E i \in 1..Len(seq) : seq[i] = v
  THEN CHOOSE i \in 1..Len(seq) : seq[i] = v
  ELSE 0

\* MessageStatus values used by responses
StatusSuccess == "success"

StatusError == "error"

\* Optional[...] = None
None == "None"

(***************************************************************************)
(* What an f-string makes of an IntentType member.  IntentType mixes in    *)
(* str: format() gives the value ("TopCash") up to Python 3.10 and the     *)
(* member name ("IntentType.TOP_CASH") from Python 3.11 on.  The           *)
(* repository pins no interpreter, so both are outcomes of a build.        *)
(***************************************************************************)
PyFormats == { "value", "name" }

FormatIntent(fmt, intent) ==
  IF fmt = "value"
  THEN intent
  ELSE "IntentType." \o IntentTypeNames[IndexOf(IntentType, intent)]

(***************************************************************************)
(* orchestrator/main.py: IntentRouter.  A text is the sequence of its      *)
(* characters.                                                             *)
(***************************************************************************)
\* IntentRouter.__init__: self.intent_patterns, in insertion order; each
\* keyword phrase is the sequence of its characters
intent_patterns ==
  <<
    [ intent |-> "TopCash",
      keywords |-> <<
        << "t", "o", "p", " ", "c", "a", "s", "h" >>,
        << "h", "i", "g", "h", "e", "s", "t", " ", "c", "a", "s", "h" >>,
        << "m", "o", "s", "t", " ", "c", "a", "s", "h" >>,
        << "l", "a", "r", "g", "e", "s", "t", " ", "c", "a", "s", "h", " ", "b", "a", "l", "a", "n", "c", "e" >>,
        << "c", "a", "s", "h", " ", "p", "o", "s", "i", "t", "i", "o", "n", "s" >>,
        << "l", "i", "q", "u", "i", "d", " ", "f", "u", "n", "d", "s" >>,
        << "w", "e", "a", "l", "t", "h", "i", "e", "s", "t", " ", "b", "y", " ", "c", "a", "s", "h" >> >> ],
    [ intent |-> "CashBalance",
      keywords |-> <<
        << "c", "a", "s", "h", " ", "b", "a", "l", "a", "n", "c", "e" >>,
        << "a", "v", "a", "i", "l", "a", "b", "l", "e", " ", "c", "a", "s", "h" >>,
        << "c", "a", "s", "h", " ", "f", "o", "r" >>,
        << "c", "a", "s", "h", " ", "p", "o", "s", "i", "t", "i", "o", "n", " ", "f", "o", "r" >>,
        << "h", "o", "w", " ", "m", "u", "c", "h", " ", "c", "a", "s", "h" >>,
        << "c", "a", "s", "h", " ", "h", "o", "l", "d", "i", "n", "g", "s" >>,
        << "l", "i", "q", "u", "i", "d", " ", "a", "s", "s", "e", "t", "s" >> >> ],
    [ intent |-> "CRMPOI",
      keywords |-> <<
        << "c", "r", "m", " ", "n", "o", "t", "e", "s" >>,
        << "p", "o", "i", "n", "t", "s", " ", "o", "f", " ", "i", "n", "t", "e", "r", "e", "s", "t" >>,
        << "c", "l", "i", "e", "n", "t", " ", "n", "o", "t", "e", "s" >>,
        << "a", "d", "v", "i", "s", "o", "r", " ", "n", "o", "t", "e", "s" >>,
        << "c", "o", "n", "v", "e", "r", "s", "a", "t", "i", "o", "n", " ", "h", "i", "s", "t", "o", "r", "y" >>,
        << "m", "e", "e", "t", "i", "n", "g", " ", "n", "o", "t", "e", "s" >>,
        << "d", "i", "s", "c", "u", "s", "s", "i", "o", "n", " ", "p", "o", "i", "n", "t", "s" >> >> ],
    [ intent |-> "Custodial18",
      keywords |-> <<
        << "t", "u", "r", "n", "e", "d", " ", "1", "8" >>,
        << "c", "u", "s", "t", "o", "d", "i", "a", "l" >>,
        << "a", "g", "e", " ", "o", "f", " ", "m", "a", "j", "o", "r", "i", "t", "y" >>,
        << "m", "i", "n", "o", "r", " ", "a", "c", "c", "o", "u", "n", "t" >>,
        << "t", "r", "a", "n", "s", "i", "t", "i", "o", "n" >>,
        << "a", "d", "u", "l", "t", " ", "a", "c", "c", "o", "u", "n", "t" >>,
        << "c", "u", "s", "t", "o", "d", "y", " ", "t", "r", "a", "n", "s", "f", "e", "r" >> >> ],
    [ intent |-> "Recon",
      keywords |-> <<
        << "a", "l", "l", "o", "c", "a", "t", "i", "o", "n" >>,
        << "m", "i", "s", "m", "a", "t", "c", "h" >>,
        << "d", "r", "i", "f", "t" >>,
        << "r", "e", "b", "a", "l", "a", "n", "c", "e" >>,
        << "t", "a", "r", "g", "e", "t", " ", "a", "l", "l", "o", "c", "a", "t", "i", "o", "n" >>,
        << "a", "s", "s", "e", "t", " ", "a", "l", "l", "o", "c", "a", "t", "i", "o", "n" >>,
        << "p", "o", "r", "t", "f", "o", "l", "i", "o", " ", "d", "r", "i", "f", "t" >>,
        << "o", "u", "t", " ", "o", "f", " ", "r", "a", "n", "g", "e" >> >> ],
    [ intent |-> "ExecSummary",
      keywords |-> <<
        << "e", "x", "e", "c", "u", "t", "i", "v", "e", " ", "s", "u", "m", "m", "a", "r", "y" >>,
        << "s", "u", "m", "m", "a", "r", "y" >>,
        << "o", "v", "e", "r", "v", "i", "e", "w" >>,
        << "r", "e", "p", "o", "r", "t", " ", "s", "u", "m", "m", "a", "r", "y" >>,
        << "h", "o", "u", "s", "e", "h", "o", "l", "d", " ", "s", "u", "m", "m", "a", "r", "y" >>,
        << "c", "l", "i", "e", "n", "t", " ", "s", "u", "m", "m", "a", "r", "y" >>,
        << "p", "o", "r", "t", "f", "o", "l", "i", "o", " ", "s", "u", "m", "m", "a", "r", "y" >> >> ],
    [ intent |-> "MissingBen",
      keywords |-> <<
        << "m", "i", "s", "s", "i", "n", "g", " ", "b", "e", "n", "e", "f", "i", "c", "i", "a", "r", "y" >>,
        << "b", "e", "n", "e", "f", "i", "c", "i", "a", "r", "y" >>,
        << "n", "o", " ", "b", "e", "n", "e", "f", "i", "c", "i", "a", "r", "y" >>,
        << "b", "e", "n", "e", "f", "i", "c", "i", "a", "r", "y", " ", "i", "n", "f", "o", "r", "m", "a", "t", "i", "o", "n" >>,
        << "e", "s", "t", "a", "t", "e", " ", "p", "l", "a", "n", "n", "i", "n", "g" >> >> ],
    [ intent |-> "RMD",
      keywords |-> <<
        << "r", "m", "d" >>,
        << "r", "e", "q", "u", "i", "r", "e", "d", " ", "m", "i", "n", "i", "m", "u", "m", " ", "d", "i", "s", "t", "r", "i", "b", "u", "t", "i", "o", "n" >>,
        << "d", "i", "s", "t", "r", "i", "b", "u", "t", "i", "o", "n", " ", "d", "e", "a", "d", "l", "i", "n", "e" >>,
        << "w", "i", "t", "h", "d", "r", "a", "w", "a", "l", " ", "r", "e", "q", "u", "i", "r", "e", "d" >>,
        << "m", "a", "n", "d", "a", "t", "o", "r", "y", " ", "d", "i", "s", "t", "r", "i", "b", "u", "t", "i", "o", "n" >> >> ],
    [ intent |-> "IRAReminder",
      keywords |-> <<
        << "i", "r", "a", " ", "c", "o", "n", "t", "r", "i", "b", "u", "t", "i", "o", "n" >>,
        << "c", "o", "n", "t", "r", "i", "b", "u", "t", "i", "o", "n", " ", "r", "e", "m", "i", "n", "d", "e", "r" >>,
        << "y", "t", "d", " ", "c", "o", "n", "t", "r", "i", "b", "u", "t", "i", "o", "n" >>,
        << "a", "n", "n", "u", "a", "l", " ", "c", "o", "n", "t", "r", "i", "b", "u", "t", "i", "o", "n" >>,
        << "c", "o", "n", "t", "r", "i", "b", "u", "t", "i", "o", "n", " ", "l", "i", "m", "i", "t" >>,
        << "n", "o", " ", "c", "o", "n", "t", "r", "i", "b", "u", "t", "i", "o", "n", "s" >> >> ],
    [ intent |-> "PerfSummary",
      keywords |-> <<
        << "p", "e", "r", "f", "o", "r", "m", "a", "n", "c", "e" >>,
        << "r", "e", "t", "u", "r", "n", "s" >>,
        << "g", "a", "i", "n" >>,
        << "l", "o", "s", "s" >>,
        << "q", "o", "q" >>,
        << "q", "t", "d" >>,
        << "y", "t", "d" >>,
        << "p", "e", "r", "f", "o", "r", "m", "a", "n", "c", "e", " ", "s", "u", "m", "m", "a", "r", "y" >>,
        << "i", "n", "v", "e", "s", "t", "m", "e", "n", "t", " ", "p", "e", "r", "f", "o", "r", "m", "a", "n", "c", "e" >> >> ]
  >>

\* str.lower() on one character
UpperToLower ==
  [ c \in { "A", "B", "C", "D", "E", "F", "G", "H", "I", "J", "K", "L", "M", "N", "O", "P", "Q", "R", "S", "T", "U", "V", "W", "X", "Y", "Z" } |->
      CASE c = "A" -> "a"
        [] c = "B" -> "b"
        [] c = "C" -> "c"
        [] c = "D" -> "d"
        [] c = "E" -> "e"
        [] c = "F" -> "f"
        [] c = "G" -> "g"
        [] c = "H" -> "h"
        [] c = "I" -> "i"
        [] c = "J" -> "j"
        [] c = "K" -> "k"
        [] c = "L" -> "l"
        [] c = "M" -> "m"
        [] c = "N" -> "n"
        [] c = "O" -> "o"
        [] c = "P" -> "p"
        [] c = "Q" -> "q"
        [] c = "R" -> "r"
        [] c = "S" -> "s"
        [] c = "T" -> "t"
        [] c = "U" -> "u"
        [] c = "V" -> "v"
        [] c = "W" -> "w"
        [] c = "X" -> "x"
        [] c = "Y" -> "y"
        [] c = "Z" -> "z" ]

LowerChar(c) == IF c \in DOMAIN UpperToLower THEN UpperToLower[c] ELSE c

\* query.lower()
Lower(text) == [ i \in 1..Len(text) |-> LowerChar(text[i]) ]

\* Python's "needle in hay" on strings
Contains(hay, needle) ==
  \E i \in 0..(Len(hay) - Len(needle)) :
    SubSeq(hay, i + 1, i + Len(needle)) = needle

\* sum(1 for keyword in keywords if keyword in query_lower)
Score(keywords, query_lower) ==
  Cardinality({ k \in 1..Len(keywords) : Contains(query_lower, keywords[k]) })

\* the intent_scores dict detect_intent fills: the intents with score > 0,
\* in the order of intent_patterns
IntentScores(query_lower) ==
  SelectSeq(
    [ n \in 1..Len(intent_patterns) |->
        [ intent |-> intent_patterns[n].intent,
          score  |-> Score(intent_patterns[n].keywords, query_lower) ] ],
    LAMBDA e : e.score > 0)

\* index of the item max() keeps, scanning on from i with best so far: a
\* faulty variant in which a later item replaces an equal one
RECURSIVE MaxIndexLast(_, _, _)
MaxIndexLast(items, i, best) ==
  IF i > Len(items)
  THEN best
  ELSE MaxIndexLast(items, i + 1,
         IF items[i].score >= items[best].score THEN i ELSE best)

\* index of the item max() keeps, scanning on from i with best so far:
\* Python's max returns the first of several maximal items
RECURSIVE MaxIndex(_, _, _)
MaxIndex(items, i, best) ==
  IF i > Len(items)
  THEN best
  ELSE MaxIndex(items, i + 1,
         IF items[i].score > items[best].score THEN i ELSE best)

\* faulty variant of detect_intent: without a match it returns the first
\* intent of IntentType
detect_intent_first_as_default(query) ==
  LET scores == IntentScores(Lower(query))
  IN IF scores = << >>
     THEN IntentType[1]
     ELSE scores[MaxIndex(scores, 2, 1)].intent

\* IntentRouter.detect_intent
detect_intent(query) ==
  LET scores == IntentScores(Lower(query))
  IN IF scores = << >>
     THEN "ExecSummary"
     ELSE scores[MaxIndex(scores, 2, 1)].intent

\* faulty variant of the routing table: TopCash also goes to the vector agent
routing_map_wide ==
  [ intent \in IntentTypeValues |->
      CASE intent = "TopCash"     -> << "nl2sql", "vector" >>
        [] intent = "CashBalance" -> << "nl2sql" >>
        [] intent = "CRMPOI"      -> << "vector" >>
        [] intent = "Custodial18" -> << "nl2sql", "vector" >>
        [] intent = "Recon"       -> << "nl2sql", "api" >>
        [] intent = "ExecSummary" -> << "nl2sql", "vector", "api" >>
        [] intent = "MissingBen"  -> << "nl2sql" >>
        [] intent = "RMD"         -> << "nl2sql" >>
        [] intent = "IRAReminder" -> << "nl2sql" >>
        [] intent = "PerfSummary" -> << "nl2sql", "api" >> ]

\* IntentRouter.get_agent_routing: the routing_map dict
routing_map ==
  [ intent \in IntentTypeValues |->
      CASE intent = "TopCash"     -> << "nl2sql" >>
        [] intent = "CashBalance" -> << "nl2sql" >>
        [] intent = "CRMPOI"      -> << "vector" >>
        [] intent = "Custodial18" -> << "nl2sql", "vector" >>
        [] intent = "Recon"       -> << "nl2sql", "api" >>
        [] intent = "ExecSummary" -> << "nl2sql", "vector", "api" >>
        [] intent = "MissingBen"  -> << "nl2sql" >>
        [] intent = "RMD"         -> << "nl2sql" >>
        [] intent = "IRAReminder" -> << "nl2sql" >>
        [] intent = "PerfSummary" -> << "nl2sql", "api" >> ]

\* faulty variant of get_agent_routing: no default for a missing key
get_agent_routing_no_default(intent) ==
  IF intent \in DOMAIN routing_map THEN routing_map[intent] ELSE << >>

\* IntentRouter.get_agent_routing: routing_map.get(intent, [AgentType.NL2SQL])
get_agent_routing(intent) ==
  IF intent \in DOMAIN routing_map THEN routing_map[intent] ELSE << "nl2sql" >>

(***************************************************************************)
(* The query texts the model routes: one to MaxWords words of Words,       *)
(* joined by single spaces.                                                *)
(***************************************************************************)
Words ==
  { << "t", "o", "p" >>,
    << "c", "a", "s", "h" >>,
    << "b", "a", "l", "a", "n", "c", "e", "s" >>,
    << "S", "u", "m", "m", "a", "r", "y" >>,
    << "y", "t", "d" >>,
    << "c", "o", "n", "t", "r", "i", "b", "u", "t", "i", "o", "n" >>,
    << "d", "r", "i", "f", "t" >>,
    << "p", "e", "r", "f", "o", "r", "m", "a", "n", "c", "e" >> }

RECURSIVE Join(_)
Join(ws) ==
  IF Len(ws) = 1 THEN ws[1] ELSE ws[1] \o << " " >> \o Join(Tail(ws))

QueryTexts ==
  { Join(ws) : ws \in UNION { [ 1..n -> Words ] : n \in 1..MaxWords } }

\* "top cash balances"
TopCashBalances == Join(<< << "t", "o", "p" >>, << "c", "a", "s", "h" >>, << "b", "a", "l", "a", "n", "c", "e", "s" >> >>)

(***************************************************************************)
(* State.                                                                  *)
(***************************************************************************)
VARIABLES
  \* ---- broker (a2a/broker.py) ----
  agent_name,          \* A2ABroker.agent_name
  message_handlers,    \* A2ABroker._message_handlers: the registered intents
  processed_messages,  \* A2ABroker._processed_messages: message_id -> time
  now,                 \* datetime.utcnow(), in ticks
  queue,               \* bodies waiting on this agent's subscription
  pc,                  \* position of start_listening's loop body
  cur,                 \* the delivery being processed
  response,            \* what _process_message returned for it
  uuid,                \* number of uuid4() values drawn so far
  published,           \* responses the transport accepted
  log,                 \* one record per delivery taken (history)
  \* ---- orchestrator (orchestrator/main.py, process_query_streaming) ----
  request,             \* QueryRequest.query, a text
  opc,                 \* position in process_query_streaming
  active_queries,      \* OrchestratorAgent._active_queries
  intent,              \* the local variable intent
  target_agents,       \* the local variable target_agents
  agent_tasks,         \* the tasks created by the fan-out, in order
  waiting_for,         \* index in agent_tasks of the task the loop is at
  agent_results,       \* the local variable agent_results
  events,              \* the streaming updates yielded so far
  clock,               \* seconds since the tasks were created
  history,             \* what happened to each task's wait, and to compose
  \* ---- router alone (IntentRouter) ----
  rquery,              \* the text given to detect_intent
  rintent,             \* what detect_intent returned
  ragents,             \* what get_agent_routing returned
  rpc,                 \* which of the two has been applied
  \* ---- a sender (A2ABroker.publish, A2ABroker.publish_response) ----
  spc,                 \* position in publish / publish_response
  scall,               \* the call in progress, or the last one
  sret,                \* what the call returned
  suuid,               \* number of uuid4() values the sender drew
  topic                \* the messages the transport accepted, in order

brokerVars ==
  << agent_name, message_handlers, processed_messages, now, queue,
     pc, cur, response, uuid, published, log >>

orchVars ==
  << request, opc, active_queries, intent, target_agents, agent_tasks,
     waiting_for, agent_results, events, clock, history >>

routeVars == << rquery, rintent, ragents, rpc >>

sendVars == << spc, scall, sret, suuid, topic >>

vars == << brokerVars, orchVars, routeVars, sendVars >>

(***************************************************************************)
(* a2a/broker.py: the broker's identity and its handler registry.          *)
(***************************************************************************)
\* faulty variant of agent_type_map: the two agent services exchanged
AgentTypeOf_swapped(name) ==
  CASE name = "orchestrator" -> "orchestrator"
    [] name = "nl2sql-agent" -> "vector"
    [] name = "vector-agent" -> "nl2sql"
    [] name = "api-agent"    -> "api"
    [] name = "frontend"     -> "frontend"
    [] OTHER                 -> "api"

\* A2ABroker.__init__: agent_type_map.get(agent_name.lower(), AgentType.API)
AgentTypeOf(name) ==
  CASE name = "orchestrator" -> "orchestrator"
    [] name = "nl2sql-agent" -> "nl2sql"
    [] name = "vector-agent" -> "vector"
    [] name = "api-agent"    -> "api"
    [] name = "frontend"     -> "frontend"
    [] OTHER                 -> "api"

\* the register_handler calls each agent service makes at start-up
RegisteredHandlers(name) ==
  CASE name = "nl2sql-agent" ->
         { "TopCash", "Recon", "MissingBen", "RMD", "IRAReminder",
           "CashBalance" }
    [] name = "vector-agent" -> { "CRMPOI", "ExecSummary" }
    [] name = "api-agent"    -> { "PerfSummary", "Recon" }
    [] OTHER                 -> {}

\* the brokers the model runs
AgentNames == { "nl2sql-agent", "vector-agent" }

(***************************************************************************)
(* The bodies the environment delivers.  A body is the set of JSON keys    *)
(* with their values; a body that json.loads rejects has the key "raw".    *)
(***************************************************************************)
\* the requests publishers send: A2AMessage.model_dump_json() of each.
\* m1 is addressed to both modelled agents and only nl2sql registers its
\* intent, m2 is addressed to vector alone, m3 names an intent outside
\* IntentType.
Requests ==
  { [ message_id |-> "m1", correlation_id |-> "c1", from_agent |-> "orchestrator",
      to_agents |-> << "nl2sql", "vector" >>, intent |-> "TopCash" ],
    [ message_id |-> "m2", correlation_id |-> "c2", from_agent |-> "frontend",
      to_agents |-> << "vector" >>, intent |-> "CRMPOI" ],
    [ message_id |-> "m3", correlation_id |-> "c3", from_agent |-> "orchestrator",
      to_agents |-> << "nl2sql", "vector" >>, intent |-> "foobar" ] }

GarbageBody == [ raw |-> "not json" ]

\* A2AResponse.model_dump_json() of a response another broker published
ForeignResponseBody ==
  [ message_id |-> "r0", correlation_id |-> "c1", from_agent |-> "api",
    to_agent |-> "orchestrator", status |-> StatusSuccess,
    result |-> "{rows}", error |-> None ]

Bodies == Requests \cup { GarbageBody, ForeignResponseBody }

NoDelivery == [ idle |-> TRUE ]

NoResponse == [ status |-> "none" ]

\* json.loads(message_body) succeeds
IsJson(body) == "raw" \notin DOMAIN body

\* line 256: message_data.get("message_type") == "response"
HasResponseType(data) ==
  "message_type" \in DOMAIN data /\ data["message_type"] = "response"

\* faulty variant: the fields of a response are not looked for
LooksLikeResponse_never(data) == FALSE

\* line 265: the body has the fields of a response
LooksLikeResponse(data) ==
  /\ "result" \in DOMAIN data
  /\ "from_agent" \in DOMAIN data
  /\ "to_agent" \in DOMAIN data

\* A2AMessage(**message_data) validates: required fields, enum members
ValidMessage(data) ==
  /\ { "from_agent", "to_agents", "intent" } \subseteq DOMAIN data
  /\ data["from_agent"] \in AgentTypeValues
  /\ \A i \in 1..Len(data["to_agents"]) : data["to_agents"][i] \in AgentTypeValues
  /\ data["intent"] \in IntentTypeValues

(***************************************************************************)
(* Idempotency cache.                                                      *)
(***************************************************************************)
\* cutoff = datetime.utcnow() - timedelta(hours=1)
Cutoff(t) == t - 1 * HOUR

\* the dict comprehension of _is_message_processed: keep v > cutoff
Evict(pm, t) ==
  [ k \in { k \in DOMAIN pm : pm[k] > Cutoff(t) } |-> pm[k] ]

\* _processed_messages after _is_message_processed(message_id) at time t
AfterCheck(pm, message_id, t) ==
  IF message_id \in DOMAIN pm THEN Evict(pm, t) ELSE pm

\* faulty variant of _is_message_processed: nothing is ever found
is_message_processed_never(pm, message_id, t) == FALSE

\* the value _is_message_processed(message_id) returns at time t
is_message_processed(pm, message_id, t) ==
  IF message_id \in DOMAIN pm
  THEN message_id \in DOMAIN Evict(pm, t)
  ELSE FALSE

\* faulty variant of _mark_message_processed: nothing is recorded
mark_message_processed_dropped(pm, message_id, t) == pm

\* _mark_message_processed: self._processed_messages[message_id] = utcnow()
mark_message_processed(pm, message_id, t) ==
  [ k \in DOMAIN pm \cup { message_id } |->
      IF k = message_id THEN t ELSE pm[k] ]

\* faulty variant of uuid4: one value over and over
uuid4_repeating(n) == "u1"

\* str(uuid4()): the n-th value drawn
uuid4(n) == "u" \o ToString(n)

\* A2AMessage(from_agent=..., to_agents=..., intent=IntentType(intent), ...):
\* message_id and correlation_id come from their default factories, the
\* (n+1)-th and (n+2)-th uuid4() values
A2AMessage(from_agent, to_agents, intent_, n) ==
  [ message_id     |-> uuid4(n + 1),
    correlation_id |-> uuid4(n + 2),
    from_agent     |-> from_agent,
    to_agents      |-> to_agents,
    intent         |-> intent_ ]

\* faulty variant of the response constructor: the request's message_id is
\* passed where its correlation_id belongs
A2AResponse_wrong_correlation(message, id, status, result, error) ==
  [ message_id     |-> id,
    correlation_id |-> message.message_id,
    from_agent     |-> AgentTypeOf(agent_name),
    to_agent       |-> message.from_agent,
    status         |-> status,
    result         |-> result,
    error          |-> error ]

\* the A2AResponse(...) _process_message builds for a request
A2AResponse(message, id, status, result, error) ==
  [ message_id     |-> id,
    correlation_id |-> message.correlation_id,
    from_agent     |-> AgentTypeOf(agent_name),
    to_agent       |-> message.from_agent,
    status         |-> status,
    result         |-> result,
    error          |-> error ]

(***************************************************************************)
(* The broker and its environment.                                         *)
(***************************************************************************)
EmptyCache == [ k \in {} |-> 0 ]

\* the results a registered handler can have: a result map, or an exception
HandlerOutcomes == { "return", "raise" }

\* the text of the exception a handler raises
HandlerErrorText == "boom"

\* the history record of the delivery taken at time t
LogEntry(body, outcome, t, resp) ==
  [ body |-> body, outcome |-> outcome, at |-> t, done_at |-> t,
    response |-> resp, sent |-> "none", settled |-> "none" ]

\* state after A2ABroker.__init__ and the agent service's register_handler calls
BrokerInit ==
  /\ agent_name \in AgentNames
  /\ message_handlers = RegisteredHandlers(agent_name)
  /\ processed_messages = EmptyCache
  /\ now = 0
  /\ queue = << >>
  /\ pc = "idle"
  /\ cur = NoDelivery
  /\ response = NoResponse
  /\ uuid = 0
  /\ published = {}
  /\ log = << >>

\* a sender's publish() or publish_response() reaches this agent's
\* subscription; the model lets one body wait there while the loop is busy
\* with another.  The topic also hands on the responses this broker
\* published itself.
publish(body) ==
  /\ queue = << >>
  /\ Len(log) + Len(queue) < MaxDeliveries
  /\ queue' = Append(queue, body)
  /\ UNCHANGED << orchVars, routeVars, sendVars, agent_name, message_handlers, processed_messages, now,
                  pc, cur, response, uuid, published, log >>

\* time passes.  The broker reads the clock in _is_message_processed and in
\* _mark_message_processed only, so the clock is advanced before a delivery
\* is taken and while its handler runs.
Tick ==
  /\ now < MaxTime
  /\ pc \in { "idle", "handler" }
  /\ now' = now + 1
  /\ UNCHANGED << orchVars, routeVars, sendVars, agent_name, message_handlers, processed_messages, 
                  queue, pc, cur, response, uuid, published, log >>

\* faulty variant: the next delivery is taken while a handler still runs
receive_messages_while_busy ==
  /\ pc \in { "idle", "handler" }
  /\ queue # << >>
  /\ Len(log) < MaxDeliveries
  /\ cur' = Head(queue)
  /\ queue' = Tail(queue)
  /\ pc' = "process"
  /\ UNCHANGED << orchVars, routeVars, sendVars, agent_name, message_handlers, processed_messages, now,
                  response, uuid, published, log >>

\* start_listening: "async for message in receiver" yields the next delivery
receive_messages ==
  /\ pc = "idle"
  /\ queue # << >>
  /\ Len(log) < MaxDeliveries
  /\ cur' = Head(queue)
  /\ queue' = Tail(queue)
  /\ pc' = "process"
  /\ UNCHANGED << orchVars, routeVars, sendVars, agent_name, message_handlers, processed_messages, now,
                  response, uuid, published, log >>

\* faulty variant of the returns before the handler call: the message_id is
\* recorded on the way out
Return_marking(outcome, resp, pm, n) ==
  /\ response' = resp
  /\ processed_messages' =
       IF "message_id" \in DOMAIN cur
       THEN mark_message_processed(pm, cur.message_id, now)
       ELSE pm
  /\ uuid' = n
  /\ log' = Append(log, LogEntry(cur, outcome, now, resp))
  /\ pc' = IF resp = NoResponse THEN "settle" ELSE "respond"

\* _process_message returns resp without having called a handler
Return(outcome, resp, pm, n) ==
  /\ response' = resp
  /\ processed_messages' = pm
  /\ uuid' = n
  /\ log' = Append(log, LogEntry(cur, outcome, now, resp))
  /\ pc' = IF resp = NoResponse THEN "settle" ELSE "respond"

\* _process_message up to the handler call (lines 246-298)
process_message ==
  /\ pc = "process"
  /\ IF ~IsJson(cur)
       THEN Return("parse_error", NoResponse, processed_messages, uuid)
     ELSE IF HasResponseType(cur) \/ LooksLikeResponse(cur)
       THEN Return("response", NoResponse, processed_messages, uuid)
     ELSE IF ~ValidMessage(cur)
       THEN Return("invalid", NoResponse, processed_messages, uuid)
     ELSE IF AgentTypeOf(agent_name) \notin Range(cur.to_agents)
       THEN Return("not_addressed", NoResponse, processed_messages, uuid)
     ELSE IF is_message_processed(processed_messages, cur.message_id, now)
       THEN Return("duplicate", NoResponse,
                   AfterCheck(processed_messages, cur.message_id, now), uuid)
     ELSE IF cur.intent \notin message_handlers
       THEN \E fmt \in PyFormats :
              Return("no_handler",
                     A2AResponse(cur, uuid4(uuid + 1), StatusError, "{}",
                       "No handler for intent: " \o FormatIntent(fmt, cur.intent)),
                     AfterCheck(processed_messages, cur.message_id, now),
                     uuid + 1)
     ELSE /\ processed_messages' =
               AfterCheck(processed_messages, cur.message_id, now)
          /\ log' = Append(log, LogEntry(cur, "invoked", now, NoResponse))
          /\ pc' = "handler"
          /\ UNCHANGED << response, uuid >>
  /\ UNCHANGED << orchVars, routeVars, sendVars, agent_name, message_handlers, now, queue, cur,
                  published >>

\* faulty variant: a handler's exception abandons the delivery on the spot
HandlerDone_abandoning(h) ==
  /\ pc = "handler"
  /\ h = "raise"
  /\ log' = [ log EXCEPT ![Len(log)] =
                [ @ EXCEPT !.outcome = "handler_raised",
                           !.done_at = now,
                           !.settled = "abandon" ] ]
  /\ queue' = Append(queue, cur)
  /\ pc' = "idle"
  /\ cur' = NoDelivery
  /\ response' = NoResponse
  /\ UNCHANGED << orchVars, routeVars, sendVars, agent_name, message_handlers, processed_messages, now,
                  uuid, published >>

\* the awaited handler finishes (lines 298-319)
HandlerDone(h) ==
  /\ pc = "handler"
  /\ LET resp ==
           IF h = "return"
           THEN A2AResponse(cur, uuid4(uuid + 1), StatusSuccess, "{rows}", None)
           ELSE A2AResponse(cur, uuid4(uuid + 1), StatusError, "{}",
                             HandlerErrorText)
     IN /\ response' = resp
        /\ processed_messages' =
             IF h = "return"
             THEN mark_message_processed(processed_messages, cur.message_id, now)
             ELSE processed_messages
        /\ log' = [ log EXCEPT ![Len(log)] =
                      [ @ EXCEPT !.outcome =
                                   IF h = "return" THEN "handled" ELSE "handler_raised",
                                 !.done_at = now,
                                 !.response = resp ] ]
  /\ uuid' = uuid + 1
  /\ pc' = "respond"
  /\ UNCHANGED << orchVars, routeVars, sendVars, agent_name, message_handlers, now, queue, cur,
                  published >>

\* start_listening: "if response: await self.publish_response(response)";
\* publish_response returns True when the transport took it, False otherwise
publish_response(ok) ==
  /\ pc = "respond"
  /\ published' = IF ok THEN published \cup { response } ELSE published
  /\ log' = [ log EXCEPT ![Len(log)].sent = IF ok THEN "ok" ELSE "failed" ]
  /\ pc' = "settle"
  /\ UNCHANGED << orchVars, routeVars, sendVars, agent_name, message_handlers, processed_messages, now,
                  queue, cur, response, uuid >>

\* start_listening: receiver.complete_message(message) succeeds
complete_message ==
  /\ pc = "settle"
  /\ log' = [ log EXCEPT ![Len(log)].settled = "complete" ]
  /\ pc' = "idle"
  /\ cur' = NoDelivery
  /\ response' = NoResponse
  /\ UNCHANGED << orchVars, routeVars, sendVars, agent_name, message_handlers, processed_messages, now,
                  queue, uuid, published >>

\* start_listening: complete_message raises, the except branch abandons the
\* delivery and the transport delivers it again
abandon_message ==
  /\ pc = "settle"
  /\ log' = [ log EXCEPT ![Len(log)].settled = "abandon" ]
  /\ queue' = Append(queue, cur)
  /\ pc' = "idle"
  /\ cur' = NoDelivery
  /\ response' = NoResponse
  /\ UNCHANGED << orchVars, routeVars, sendVars, agent_name, message_handlers, processed_messages, now,
                  uuid, published >>

\* start_listening: complete_message raises and abandon_message, called in
\* the except branch, raises as well: the exception leaves the loop, the
\* outer except branch logs it and raises it again.  The delivery stays
\* unsettled in the subscription and the broker takes no delivery any more.
abandon_message_raises ==
  /\ pc = "settle"
  /\ queue' = Append(queue, cur)
  /\ pc' = "stopped"
  /\ cur' = NoDelivery
  /\ response' = NoResponse
  /\ UNCHANGED << orchVars, routeVars, sendVars, agent_name, message_handlers, processed_messages, now,
                  uuid, published, log >>

(***************************************************************************)
(* orchestrator/main.py: OrchestratorAgent.process_query_streaming.        *)
(***************************************************************************)
\* asyncio.wait_for(task, timeout=30), in seconds
AgentTimeout == 30

\* the seconds an agent call can take: multiples of DelayStep
Delays == { k * DelayStep : k \in 0..MaxDelaySteps }

\* str(uuid.uuid4()) drawn for the query
QueryCorrelationId == "q1"

\* how _query_agent's coroutine for an agent can end.  _query_nl2sql_agent
\* returns the agent's JSON (HTTP 200), its placeholder (the HTTP call
\* failed) or its error dict (an exception before that); the vector and api
\* calls return their placeholder.  None of them lets an exception out.
TaskKinds(agent) ==
  IF agent = "nl2sql" THEN { "http_ok", "fallback", "error" } ELSE { "placeholder" }

\* faulty variant: every agent's call can take any of the delays
TaskDelays_any_agent(agent) == Delays

\* the vector and api placeholders do not wait for anything
TaskDelays(agent) == IF agent = "nl2sql" THEN Delays ELSE { 0 }

\* the requests the agent's call has published through send_query_to_agent
\* by the time it ends as kind: _query_nl2sql_agent sends one before its
\* HTTP call, and its error dict stands for a failure before the request
\* went out; the vector and api calls send none.  send_query_to_agent gets
\* neither the message built at lines 645-652 nor the query's
\* correlation_id, and builds its own A2AMessage.
sent_requests(agent, kind, intent_) ==
  IF agent = "nl2sql" /\ kind # "error"
  THEN << A2AMessage(AgentTypeOf(agent_name), << "nl2sql" >>, intent_, uuid) >>
  ELSE << >>

\* the dict _query_agent returns
query_agent(agent, kind) ==
  [ agent  |-> agent,
    status |-> IF kind = "error" THEN "error" ELSE "success",
    kind   |-> kind ]

\* how "await asyncio.wait_for(task, timeout=30)" ends for a task that
\* returns delay seconds after its creation, awaited from second since on;
\* late decides the race of a task that returns on the deadline
wait_for(kind, delay, since, late) ==
  IF kind = "raise" THEN "raised"
  ELSE IF delay < since + AgentTimeout THEN "result"
  ELSE IF delay > since + AgentTimeout THEN "timeout"
  ELSE IF late THEN "timeout" ELSE "result"

Max(a, b) == IF a >= b THEN a ELSE b

\* faulty variant: a timed-out agent gets an empty entry
collect_with_empty_entry(results, agent, outcome, result) ==
  [ a \in DOMAIN results \cup { agent } |->
      IF a = agent
      THEN (IF outcome = "result" THEN result ELSE query_agent(agent, "empty"))
      ELSE results[a] ]

\* agent_results after the wait for agent ended: "agent_results[agent] =
\* result" runs only when wait_for returned
collect(results, agent, outcome, result) ==
  IF outcome = "result"
  THEN [ a \in DOMAIN results \cup { agent } |->
           IF a = agent THEN result ELSE results[a] ]
  ELSE results

\* StreamingUpdate(type, content, agent); content is abbreviated to a tag
Update(type, content, agent) ==
  [ type |-> type, content |-> content, agent |-> agent ]

\* faulty variant: a partial update whatever the wait's end
update_after_wait_always_partial(agent, outcome) ==
  Update("partial", "received", agent)

\* the update the loop yields when the wait for agent ended
update_after_wait(agent, outcome) ==
  CASE outcome = "result"  -> Update("partial", "received", agent)
    [] outcome = "timeout" -> Update("status", "timeout", agent)
    [] OTHER               -> Update("status", "error", agent)

\* ResponseComposer.compose_response: kernel tells whether kernel.invoke
\* returned or raised; an exception is caught and answered with an apology
compose_response(results, kernel) ==
  IF kernel = "ok"
  THEN [ answer |-> "composed", agent_calls |-> DOMAIN results ]
  ELSE [ answer |-> "apology", agent_calls |-> {} ]

\* faulty variant: an error update follows the final response
final_updates_with_error(response_) ==
  << Update("complete", response_.answer, "orchestrator"),
     Update("error", "failed", "orchestrator") >>

\* the updates process_query_streaming yields once compose_response returned
final_updates(response_) ==
  << Update("complete", response_.answer, "orchestrator") >>

EmptyResults == [ a \in {} |-> 0 ]

NoHistory ==
  [ waits |-> << >>, requests |-> << >>, kernel |-> "none",
    aggregate |-> EmptyResults ]

\* the requests the model streams: "top cash", "Summary", "drift"
OrchRequests ==
  { Join(<< << "t", "o", "p" >>, << "c", "a", "s", "h" >> >>),
    << "S", "u", "m", "m", "a", "r", "y" >>,
    << "d", "r", "i", "f", "t" >> }

\* faulty variant: the record is written under every key
session_store_shared(queries, correlation_id, record) ==
  [ c \in DOMAIN queries \cup { correlation_id } |-> record ]

\* self._active_queries[correlation_id] = record, and the item assignments
\* that leave it as record
session_store(queries, correlation_id, record) ==
  [ c \in DOMAIN queries \cup { correlation_id } |->
      IF c = correlation_id THEN record ELSE queries[c] ]

\* the correlation_id of a query that began earlier
OtherCorrelationId == "q0"

\* _active_queries when the query begins: empty, or with the record of
\* another query, in flight or ended
EarlierQueries ==
  { [ c \in {} |-> 0 ],
    [ c \in { OtherCorrelationId } |-> [ status |-> "processing", response |-> None ] ],
    [ c \in { OtherCorrelationId } |-> [ status |-> "complete", response |-> "composed" ] ] }

OrchInit ==
  /\ request \in OrchRequests
  /\ opc = "start"
  /\ active_queries \in EarlierQueries
  /\ intent = None
  /\ target_agents = << >>
  /\ agent_tasks = << >>
  /\ waiting_for = 0
  /\ agent_results = EmptyResults
  /\ events = << >>
  /\ clock = 0
  /\ history = NoHistory

\* lines 489-502: the session record, the first status update
StartQuery ==
  /\ opc = "start"
  /\ active_queries' =
       session_store(active_queries, QueryCorrelationId,
                     [ status |-> "processing", response |-> None ])
  /\ events' = Append(events, Update("status", "processing", "orchestrator"))
  /\ opc' = "detect"
  /\ UNCHANGED << brokerVars, routeVars, sendVars, request, intent, target_agents,
                  agent_tasks, waiting_for, agent_results, clock, history >>

\* lines 504-509
DetectIntent ==
  /\ opc = "detect"
  /\ intent' = detect_intent(request)
  /\ events' = Append(events, Update("status", "intent", "orchestrator"))
  /\ opc' = "route"
  /\ UNCHANGED << brokerVars, routeVars, sendVars, request, active_queries,
                  target_agents, agent_tasks, waiting_for, agent_results,
                  clock, history >>

\* lines 511-516
RouteAgents ==
  /\ opc = "route"
  /\ target_agents' = get_agent_routing(intent)
  /\ events' = Append(events, Update("status", "routing", "orchestrator"))
  /\ opc' = "fanout"
  /\ UNCHANGED << brokerVars, routeVars, sendVars, request, active_queries, intent,
                  agent_tasks, waiting_for, agent_results, clock, history >>

\* lines 518-527: one task per agent, all created before the first wait
FanOut ==
  /\ opc = "fanout"
  /\ agent_tasks' = target_agents
  /\ agent_results' = EmptyResults
  /\ clock' = 0
  /\ waiting_for' = 1
  /\ opc' = IF target_agents = << >> THEN "composing" ELSE "waiting"
  /\ UNCHANGED << brokerVars, routeVars, sendVars, request, active_queries, intent,
                  target_agents, events, history >>

\* lines 530-532: "Waiting for <agent>..."
AnnounceWait ==
  /\ opc = "waiting"
  /\ events' = Append(events,
                 Update("status", "waiting", agent_tasks[waiting_for]))
  /\ opc' = "await"
  /\ UNCHANGED << brokerVars, routeVars, sendVars, request, active_queries, intent,
                  target_agents, agent_tasks, waiting_for, agent_results,
                  clock, history >>

\* lines 534-550: the wait for the task ends, by its result, by the timeout
\* (wait_for cancels the task) or by its exception; the requests the task
\* has published by then are noted in history
Await(kind, delay, late) ==
  /\ opc = "await"
  /\ LET agent   == agent_tasks[waiting_for]
         outcome == wait_for(kind, delay, clock, late)
         result  == query_agent(agent, kind)
     IN /\ kind \in TaskKinds(agent)
        /\ delay \in TaskDelays(agent)
        /\ late => delay = clock + AgentTimeout
        /\ agent_results' = collect(agent_results, agent, outcome, result)
        /\ events' = Append(events, update_after_wait(agent, outcome))
        /\ clock' = IF outcome = "timeout"
                    THEN clock + AgentTimeout
                    ELSE Max(clock, delay)
        /\ history' = [ history EXCEPT
                          !.waits =
                            Append(@, [ agent |-> agent, kind |-> kind,
                                        delay |-> delay, outcome |-> outcome,
                                        since |-> clock ]),
                          !.requests = @ \o sent_requests(agent, kind, intent) ]
  /\ waiting_for' = waiting_for + 1
  /\ opc' = IF waiting_for = Len(agent_tasks) THEN "composing" ELSE "waiting"
  /\ UNCHANGED << brokerVars, routeVars, sendVars, request, active_queries, intent,
                  target_agents, agent_tasks >>

\* lines 552-555: "Composing final response..."
AnnounceCompose ==
  /\ opc = "composing"
  /\ events' = Append(events, Update("status", "composing", "orchestrator"))
  /\ opc' = "compose"
  /\ UNCHANGED << brokerVars, routeVars, sendVars, request, active_queries, intent,
                  target_agents, agent_tasks, waiting_for, agent_results,
                  clock, history >>

\* lines 557-568: compose_response, the session record, the final update.
\* Nothing in the try block lets an Exception out (compose_response catches
\* its own), so the except branch of lines 570-576 has no step.
Compose(kernel) ==
  /\ opc = "compose"
  /\ LET response_ == compose_response(agent_results, kernel)
     IN /\ active_queries' =
             session_store(active_queries, QueryCorrelationId,
                           [ status |-> "complete", response |-> response_.answer ])
        /\ events' = events \o final_updates(response_)
  /\ history' = [ history EXCEPT !.kernel = kernel,
                                 !.aggregate = agent_results ]
  /\ opc' = "done"
  /\ UNCHANGED << brokerVars, routeVars, sendVars, request, intent, target_agents,
                  agent_tasks, waiting_for, agent_results, clock >>

NextOrch ==
  \/ StartQuery
  \/ DetectIntent
  \/ RouteAgents
  \/ FanOut
  \/ AnnounceWait
  \/ \E kind \in { "http_ok", "fallback", "error", "placeholder" },
        delay \in Delays, late \in BOOLEAN : Await(kind, delay, late)
  \/ AnnounceCompose
  \/ \E kernel \in { "ok", "raise" } : Compose(kernel)

(***************************************************************************)
(* The router alone: detect_intent and get_agent_routing applied to a text.*)
(***************************************************************************)
RouteInit ==
  /\ rquery \in QueryTexts
  /\ rintent = None
  /\ ragents = << >>
  /\ rpc = "detect"

\* intent = await self.router.detect_intent(query)
ApplyDetectIntent ==
  /\ rpc = "detect"
  /\ rintent' = detect_intent(rquery)
  /\ rpc' = "route"
  /\ UNCHANGED << brokerVars, orchVars, sendVars, rquery, ragents >>

\* target_agents = self.router.get_agent_routing(intent)
ApplyGetAgentRouting ==
  /\ rpc = "route"
  /\ ragents' = get_agent_routing(rintent)
  /\ rpc' = "done"
  /\ UNCHANGED << brokerVars, orchVars, sendVars, rquery, rintent >>

\* the keys get_agent_routing is looked up with: the members of IntentType
\* and a key that routing_map lacks
LookupKeys == IntentTypeValues \cup { "foobar" }

\* a caller applies get_agent_routing to a key of its own
LookUpAgentRouting(key) ==
  /\ rpc = "detect"
  /\ rintent' = key
  /\ ragents' = get_agent_routing(key)
  /\ rpc' = "looked_up"
  /\ UNCHANGED << brokerVars, orchVars, sendVars, rquery >>

NextRoute ==
  \/ ApplyDetectIntent
  \/ ApplyGetAgentRouting
  \/ \E key \in LookupKeys : LookUpAgentRouting(key)

(***************************************************************************)
(* a2a/broker.py: the sending side.  send_query_to_agent and               *)
(* broadcast_message build a request and hand it to A2ABroker.publish;     *)
(* start_listening hands a response to A2ABroker.publish_response.         *)
(***************************************************************************)
\* the agents send_query_to_agent is called with
SendTargets == { "nl2sql", "vector" }

\* the lists broadcast_message is called with
BroadcastLists == { << >>, << "nl2sql" >>, << "nl2sql", "vector" >> }

\* the intents the senders name (members of IntentType)
SendIntents == { "TopCash", "CRMPOI" }

\* the responses start_listening hands to publish_response
SendResponses ==
  { ForeignResponseBody,
    [ message_id |-> "r1", correlation_id |-> "c1", from_agent |-> "nl2sql",
      to_agent |-> "orchestrator", status |-> StatusError,
      result |-> "{}", error |-> HandlerErrorText ] }

NoCall == [ fn |-> "none", seq |-> 0 ]

\* the record of the next call, of fn with message, made when the transport
\* had accepted before messages
Call(fn, via, message, before) ==
  [ fn |-> fn, via |-> via, message |-> message, fault |-> "none",
    before |-> before, seq |-> scall.seq + 1 ]

\* faulty variant of the except branch: the exception goes on to the caller
except_branch_reraise(stage) == [ pc |-> "raised", ret |-> None ]

\* "except Exception as e: ... return False" of publish and publish_response
except_branch(stage) == [ pc |-> "returned", ret |-> FALSE ]

SendInit ==
  /\ spc = "idle"
  /\ scall = NoCall
  /\ sret = None
  /\ suuid = 0
  /\ topic = << >>

\* the caller is between two calls and has calls left to make
CanCall ==
  /\ spc \in { "idle", "returned" }
  /\ scall.seq < MaxCalls

\* a call enters the try block of publish / publish_response
Enter(call, n) ==
  /\ scall' = call
  /\ suuid' = n
  /\ sret' = None
  /\ spc' = "get_sender"
  /\ UNCHANGED << brokerVars, orchVars, routeVars, topic >>

\* send_query_to_agent(broker, target_agent, intent, payload)
send_query_to_agent(target_agent, intent_) ==
  /\ CanCall
  /\ Enter(Call("publish", "send_query_to_agent",
                A2AMessage(AgentTypeOf(agent_name), << target_agent >>,
                           intent_, suuid),
                Len(topic)),
           suuid + 2)

\* broadcast_message(broker, agents, intent, payload)
broadcast_message(agents, intent_) ==
  /\ CanCall
  /\ Enter(Call("publish", "broadcast_message",
                A2AMessage(AgentTypeOf(agent_name), agents, intent_, suuid),
                Len(topic)),
           suuid + 2)

\* start_listening: await self.publish_response(response)
send_response(resp) ==
  /\ CanCall
  /\ Enter(Call("publish_response", "start_listening", resp, Len(topic)),
           suuid)

\* a statement of the try block raised: the except branch runs
Fails(stage) ==
  /\ scall' = [ scall EXCEPT !.fault = stage ]
  /\ spc' = except_branch(stage).pc
  /\ sret' = except_branch(stage).ret
  /\ UNCHANGED topic

\* sender = await self._get_sender()
get_sender(ok) ==
  /\ spc = "get_sender"
  /\ IF ok
     THEN spc' = "serialize" /\ UNCHANGED << scall, sret, topic >>
     ELSE Fails("get_sender")
  /\ UNCHANGED << brokerVars, orchVars, routeVars, suuid >>

\* model_dump_json(), ServiceBusMessage(...), application_properties
serialize(ok) ==
  /\ spc = "serialize"
  /\ IF ok
     THEN spc' = "send" /\ UNCHANGED << scall, sret, topic >>
     ELSE Fails("serialize")
  /\ UNCHANGED << brokerVars, orchVars, routeVars, suuid >>

\* await sender.send_messages(service_bus_message); return True
send_messages(ok) ==
  /\ spc = "send"
  /\ IF ok
     THEN /\ topic' = Append(topic, scall.message)
          /\ sret' = TRUE
          /\ spc' = "returned"
          /\ UNCHANGED scall
     ELSE Fails("send")
  /\ UNCHANGED << brokerVars, orchVars, routeVars, suuid >>

NextSend ==
  \/ \E t \in SendTargets, i \in SendIntents : send_query_to_agent(t, i)
  \/ \E l \in BroadcastLists, i \in SendIntents : broadcast_message(l, i)
  \/ \E r \in SendResponses : send_response(r)
  \/ \E ok \in BOOLEAN : get_sender(ok)
  \/ \E ok \in BOOLEAN : serialize(ok)
  \/ \E ok \in BOOLEAN : send_messages(ok)

(***************************************************************************)
(* The specifications.  Each runs one component; the variables of the      *)
(* others stay at rest.                                                    *)
(***************************************************************************)
SendAtRest ==
  /\ spc = "off"
  /\ scall = NoCall
  /\ sret = None
  /\ suuid = 0
  /\ topic = << >>

BrokerAtRest ==
  /\ agent_name = "orchestrator"
  /\ message_handlers = {}
  /\ processed_messages = EmptyCache
  /\ now = 0
  /\ queue = << >>
  /\ pc = "off"
  /\ cur = NoDelivery
  /\ response = NoResponse
  /\ uuid = 0
  /\ published = {}
  /\ log = << >>

OrchAtRest ==
  /\ request = << >>
  /\ opc = "off"
  /\ active_queries = [ c \in {} |-> 0 ]
  /\ intent = None
  /\ target_agents = << >>
  /\ agent_tasks = << >>
  /\ waiting_for = 0
  /\ agent_results = EmptyResults
  /\ events = << >>
  /\ clock = 0
  /\ history = NoHistory

RouteAtRest ==
  /\ rquery = << >>
  /\ rintent = None
  /\ ragents = << >>
  /\ rpc = "off"

Next ==
  \/ \E body \in Bodies \cup published : publish(body)
  \/ Tick
  \/ receive_messages
  \/ process_message
  \/ \E h \in HandlerOutcomes : HandlerDone(h)
  \/ \E ok \in BOOLEAN : publish_response(ok)
  \/ complete_message
  \/ abandon_message
  \/ abandon_message_raises

Init == BrokerInit /\ OrchAtRest /\ RouteAtRest /\ SendAtRest

Spec == Init /\ [][Next]_vars

InitOrch == OrchInit /\ BrokerAtRest /\ RouteAtRest /\ SendAtRest

SpecOrch == InitOrch /\ [][NextOrch]_vars

\* the generator is driven to its end by its consumer (StreamingResponse,
\* process_query_sync) and every wait ends by the timeout at the latest
FairSpecOrch == SpecOrch /\ WF_vars(NextOrch)

InitRoute == RouteInit /\ BrokerAtRest /\ OrchAtRest /\ SendAtRest

SpecRoute == InitRoute /\ [][NextRoute]_vars

InitSend == SendInit /\ BrokerAtRest /\ OrchAtRest /\ RouteAtRest

SpecSend == InitSend /\ [][NextSend]_vars

(***************************************************************************)
(* Properties of the broker (specification Spec).                          *)
(***************************************************************************)
Deliveries == 1..Len(log)

\* the delivery reached a registered handler
HandlerInvoked(e) == e.outcome \in { "invoked", "handled", "handler_raised" }

\* the delivery is a request (not a response, not garbage) that names this
\* broker's agent in to_agents
AddressedRequest(e) ==
  /\ IsJson(e.body)
  /\ ~LooksLikeResponse(e.body)
  /\ "to_agents" \in DOMAIN e.body
  /\ AgentTypeOf(agent_name) \in Range(e.body.to_agents)

\* two deliveries of one message_id, the second within an hour of the first
Redelivered(i, j) ==
  /\ i < j
  /\ AddressedRequest(log[i])
  /\ AddressedRequest(log[j])
  /\ log[i].body.message_id = log[j].body.message_id
  /\ log[j].at - log[i].at < HOUR

\* C1 as stated: a message_id delivered twice within the retention window has
\* its handler invoked at most once, whether the first invocation returned or
\* raised.
C1_AtMostOnceWhateverOutcome ==
  \A i, j \in Deliveries :
    Redelivered(i, j) => ~(HandlerInvoked(log[i]) /\ HandlerInvoked(log[j]))

\* C1 amended: once a handler has returned without raising for a message_id,
\* no later delivery of that message_id within the retention window invokes a
\* handler again (an invocation that raised does not count: the redelivery
\* invokes the handler again).
C1_AtMostOnceAfterSuccess ==
  \A i, j \in Deliveries :
    (Redelivered(i, j) /\ log[i].outcome = "handled") => ~HandlerInvoked(log[j])

\* C1: a message was handled and its redelivery within the window was dropped
C1_Witness ==
  \E i, j \in Deliveries :
    /\ Redelivered(i, j)
    /\ log[i].outcome = "handled"
    /\ log[j].outcome = "duplicate"

\* C2 as stated: a request addressed to this agent whose intent has no
\* registered handler, an intent outside IntentType included, is answered
\* with an ERROR response whose error is exactly "No handler for intent: "
\* followed by the intent, and that response is handed to publish_response.
C2_NoHandlerAlwaysAnswered ==
  \A i \in Deliveries :
    (AddressedRequest(log[i]) /\ log[i].body.intent \notin message_handlers)
      => /\ log[i].response.status = StatusError
         /\ log[i].response.error =
              "No handler for intent: " \o log[i].body.intent
         /\ (log[i].settled # "none" => log[i].sent # "none")

\* C3 as stated: a delivery whose handler raised is answered with an ERROR
\* response carrying the exception text and is abandoned, never completed.
C3_HandlerErrorAbandons ==
  \A i \in Deliveries :
    (log[i].outcome = "handler_raised" /\ log[i].settled # "none")
      => /\ log[i].response.status = StatusError
         /\ log[i].response.error = HandlerErrorText
         /\ log[i].sent # "none"
         /\ log[i].settled = "abandon"

\* C5: every response the broker builds, SUCCESS or ERROR, carries the
\* correlation_id of the request that triggered it, and so does every
\* response the transport accepted.
C5_CorrelationRoundTrip ==
  /\ \A i \in Deliveries :
       log[i].response # NoResponse
         => log[i].response.correlation_id = log[i].body.correlation_id
  /\ \A r \in published :
       \E i \in Deliveries :
         /\ log[i].response = r
         /\ r.correlation_id = log[i].body.correlation_id

\* C5: a SUCCESS and an ERROR response for requests of different
\* correlation_ids were both published
C5_Witness ==
  \E r1, r2 \in published :
    /\ r1.status = StatusSuccess
    /\ r2.status = StatusError
    /\ r1.correlation_id # r2.correlation_id


\* two deliveries of one message_id, the second less than an hour after the
\* handler returned for the first
RedeliveredAfterSuccess(i, j) ==
  /\ i < j
  /\ log[i].outcome = "handled"
  /\ AddressedRequest(log[j])
  /\ log[i].body.message_id = log[j].body.message_id
  /\ log[j].at - log[i].done_at < HOUR

\* C13: a delivery of a message_id whose handler returned less than an hour
\* before is dropped silently: no handler is invoked for it, no response is
\* built and none is handed to publish_response.
C13_DuplicateDroppedSilently ==
  \A i, j \in Deliveries :
    RedeliveredAfterSuccess(i, j) =>
      /\ log[j].outcome = "duplicate"
      /\ log[j].response = NoResponse
      /\ log[j].sent = "none"

\* a duplicate arrived after the clock had advanced, was dropped and settled;
\* the one response published is that of the first delivery
C13_Witness ==
  \E i, j \in Deliveries :
    /\ RedeliveredAfterSuccess(i, j)
    /\ log[j].at > log[i].done_at
    /\ log[j].outcome = "duplicate"
    /\ log[j].settled = "complete"
    /\ Cardinality(published) <= 1

\* a step adds an entry to the cache or changes the time of one
CacheInsert ==
  \E k \in DOMAIN processed_messages' :
    \/ k \notin DOMAIN processed_messages
    \/ processed_messages'[k] # processed_messages[k]

\* _process_message ends without a handler having returned
FailureStep ==
  \/ /\ pc = "process"
     /\ Len(log') > Len(log)
     /\ log'[Len(log')].outcome \in
          { "parse_error", "invalid", "not_addressed", "no_handler" }
  \/ /\ pc = "handler"
     /\ response'.status = StatusError

\* the deliveries of a message_id before delivery j, none of them handled
NotHandledBefore(j) ==
  \A k \in 1..(j - 1) :
    ("message_id" \in DOMAIN log[k].body
       /\ log[k].body.message_id = log[j].body.message_id)
      => log[k].outcome # "handled"

\* C14: the cache gets an entry only in the step in which a handler returns,
\* and then the entry of that message; a parse failure, an invalid or
\* not-addressed message, a missing handler and a handler exception leave
\* the cache as it was; so a message whose handler raised reaches the
\* handler again when it is delivered again.
C14_InsertOnlyOnSuccess ==
  /\ [][ /\ CacheInsert =>
              /\ pc = "handler"
              /\ response'.status = StatusSuccess
              /\ processed_messages' =
                   mark_message_processed(processed_messages, cur.message_id, now)
         /\ FailureStep => processed_messages' = processed_messages ]_vars
  /\ [](\A i, j \in Deliveries :
          ( /\ i < j
            /\ log[i].outcome = "handler_raised"
            /\ AddressedRequest(log[j])
            /\ log[i].body.message_id = log[j].body.message_id
            /\ NotHandledBefore(j) )
          => HandlerInvoked(log[j]))

\* a message whose handler raised was delivered again and handled, and the
\* cache holds its entry only since then
C14_Witness ==
  \E i, j \in Deliveries :
    /\ i < j
    /\ log[i].outcome = "handler_raised"
    /\ log[j].outcome = "handled"
    /\ log[i].body.message_id = log[j].body.message_id
    /\ log[j].body.message_id \in DOMAIN processed_messages
    /\ processed_messages[log[j].body.message_id] = log[j].done_at

\* the agent whose service is called name: "<agent>-agent"
ServiceIdentity(name) ==
  CHOOSE a \in AgentTypeValues : name = a \o "-agent"

\* the delivery is a well-formed request that does not name this broker's
\* agent in to_agents
NotAddressed(body) ==
  /\ IsJson(body)
  /\ ~LooksLikeResponse(body)
  /\ "to_agents" \in DOMAIN body
  /\ ServiceIdentity(agent_name) \notin Range(body.to_agents)

\* C15: a request whose to_agents does not hold the broker's agent is
\* dropped silently: no handler is invoked, no response is built or handed
\* to publish_response, and processing it leaves the cache unchanged.
C15_NotAddressedDropped ==
  /\ [](\A i \in Deliveries :
          NotAddressed(log[i].body) =>
            /\ ~HandlerInvoked(log[i])
            /\ log[i].response = NoResponse
            /\ log[i].sent = "none")
  /\ [][ (pc = "process" /\ NotAddressed(cur)) =>
           processed_messages' = processed_messages ]_vars

\* a request for another agent was dropped and settled, and the cache holds
\* an entry
C15_Witness ==
  \E i \in Deliveries :
    /\ NotAddressed(log[i].body)
    /\ log[i].outcome = "not_addressed"
    /\ log[i].settled = "complete"
    /\ processed_messages # EmptyCache

\* an entry of time v is one the cleanup of _is_message_processed removes at
\* time t ("older than 1 hour": not v > cutoff)
Expired(v, t) == ~(v > Cutoff(t))

\* _is_message_processed has just run for the delivery in hand, and the
\* clock has not moved since
JustChecked ==
  /\ pc \in { "handler", "respond", "settle" }
  /\ log[Len(log)].outcome \in { "duplicate", "no_handler", "invoked" }
  /\ log[Len(log)].at = now

\* C17 as stated: after an idempotency check, for a message_id that is in
\* the cache or for one that is not, the cache holds no expired entry.
C17_EveryCheckEvicts ==
  JustChecked =>
    \A k \in DOMAIN processed_messages : ~Expired(processed_messages[k], now)

\* the deliveries for which _process_message built a response
Answers == { i \in Deliveries : log[i].response # NoResponse }

\* C20: every response the broker builds comes from the broker's own agent,
\* goes to the from_agent of its request, has a message_id that no request
\* and no other response has, has status success or error, has an error
\* text exactly when its status is error, and has an empty result when its
\* status is error.
C20_ResponseWellFormed ==
  \A i \in Answers :
    LET r == log[i].response
    IN /\ r.from_agent = ServiceIdentity(agent_name)
       /\ r.to_agent = log[i].body.from_agent
       /\ r.message_id # log[i].body.message_id
       /\ \A b \in Requests : r.message_id # b.message_id
       /\ \A j \in Answers : j # i => log[j].response.message_id # r.message_id
       /\ r.status \in { StatusSuccess, StatusError }
       /\ r.error # None <=> r.status = StatusError
       /\ r.status = StatusError => r.result = "{}"

\* a SUCCESS response and the ERROR response for a handler exception were
\* built in one run
C20_Witness ==
  \E i, j \in Answers :
    /\ log[i].response.status = StatusSuccess
    /\ log[i].response.result # "{}"
    /\ log[j].outcome = "handler_raised"
    /\ log[j].response.status = StatusError

(***************************************************************************)
(* Properties of the query stream (SpecOrch, FairSpecOrch).                *)
(***************************************************************************)
\* the waits of the query that ended without a result
TimedOut(w) == w.outcome = "timeout"

Answered(w) == w.outcome = "result" /\ w.kind # "error"

Waits == 1..Len(history.waits)

EventTypes(type) == { i \in 1..Len(events) : events[i].type = type }

\* the stream told about the agent's timeout
MarkedTimedOut(agent) ==
  \E i \in EventTypes("status") :
    events[i].agent = agent /\ events[i].content = "timeout"

\* the stream told about the agent's failure
MarkedFailed(agent) ==
  \E i \in EventTypes("status") :
    events[i].agent = agent /\ events[i].content \in { "timeout", "error" }

\* at the end of a query in which an agent timed out: the results of the
\* agents that answered are in the aggregate, the timed-out agent is not
\* and was reported, and the last update is "complete"
TimeoutIsolated ==
  (opc = "done" /\ \E w \in Waits : TimedOut(history.waits[w])) =>
    /\ \A w \in Waits :
         LET wt == history.waits[w]
         IN /\ Answered(wt) =>
                 /\ wt.agent \in DOMAIN history.aggregate
                 /\ history.aggregate[wt.agent] = query_agent(wt.agent, wt.kind)
            /\ TimedOut(wt) =>
                 /\ wt.agent \notin DOMAIN history.aggregate
                 /\ MarkedTimedOut(wt.agent)
                 /\ clock >= wt.since + AgentTimeout
    /\ events[Len(events)].type = "complete"

\* C4: when agent A answers and agent B does not answer within its 30
\* seconds, the query still ends: B's wait times out, the aggregate handed
\* to the composer holds A's result and not B's, B was reported as timed
\* out, and the stream ends with a "complete" update.
C4_TimeoutStillCompletes ==
  /\ [](opc = "await" => <>(opc = "done"))
  /\ []TimeoutIsolated

C4_Witness ==
  /\ opc = "done"
  /\ \E a, b \in Waits :
       /\ Answered(history.waits[a])
       /\ TimedOut(history.waits[b])
       /\ history.waits[a].agent \in DOMAIN history.aggregate
       /\ history.waits[b].agent \notin DOMAIN history.aggregate
  /\ events[Len(events)].type = "complete"

Terminals == EventTypes("complete") \cup EventTypes("error")

C7_FailedAgentExcluded ==
  opc = "done" =>
    \A w \in Waits :
      LET wt == history.waits[w]
      IN /\ (TimedOut(wt) \/ wt.kind = "error") =>
              /\ wt.agent \notin DOMAIN history.aggregate
              /\ MarkedFailed(wt.agent)
         /\ Answered(wt) => wt.agent \in DOMAIN history.aggregate

\* C8: when the composer's call raised, the stream ends with an "error"
\* update and holds no "complete" update.
C8_ComposeFailureIsError ==
  (opc = "done" /\ history.kernel = "raise") =>
    /\ events[Len(events)].type = "error"
    /\ EventTypes("complete") = {}

\* C19 as stated: when the call of a required agent came back with a
\* failure (status error and a message), the stream holds an "error" update
\* for that agent.
C19_AgentFailureGivesErrorEvent ==
  opc = "done" =>
    \A w \in Waits :
      (history.waits[w].outcome = "result" /\ history.waits[w].kind = "error") =>
        \E i \in EventTypes("error") : events[i].agent = history.waits[w].agent

(***************************************************************************)
(* Properties of the router (SpecRoute).                                   *)
(***************************************************************************)
\* the phrase occurs in the text, letter case disregarded
OccursIn(phrase, text) ==
  \E off \in 0..(Len(text) - Len(phrase)) :
    \A j \in 1..Len(phrase) : LowerChar(text[off + j]) = LowerChar(phrase[j])

\* per intent, the number of phrases of its keyword list that occur in text
Matches(text) ==
  [ t \in IntentTypeValues |->
      LET n    == CHOOSE m \in 1..Len(intent_patterns) :
                    intent_patterns[m].intent = t
          list == intent_patterns[n].keywords
      IN Cardinality({ k \in 1..Len(list) : OccursIn(list[k], text) }) ]

\* the intents with the most matches, when that is more than none
Leaders(matches) ==
  { t \in 1..Len(IntentType) :
      /\ matches[IntentType[t]] > 0
      /\ \A u \in 1..Len(IntentType) :
           matches[IntentType[u]] <= matches[IntentType[t]] }

\* C9: when some keyword phrase occurs in the text, detect_intent returns
\* an intent with the largest number of matching phrases, and of the
\* intents with that number the one declared first in IntentType.
C9_HighestScoreFirstDeclared ==
  rpc \in { "route", "done" } =>
    LET leaders == Leaders(Matches(rquery))
    IN leaders # {} =>
         \E t \in leaders :
           /\ rintent = IntentType[t]
           /\ \A u \in leaders : t <= u

\* a text with an upper-case letter on which two intents tie for the most
\* matches, the later-declared one being passed over
C9_Witness ==
  /\ rpc = "done"
  /\ rquery # Lower(rquery)
  /\ LET leaders == Leaders(Matches(rquery))
     IN \E t, u \in leaders : t < u /\ rintent = IntentType[t]

\* C10: "top cash balances" is given the intent TopCash and is routed to
\* the nl2sql agent alone.
C10_TopCashBalancesToNl2sql ==
  rquery = TopCashBalances =>
    /\ rpc \in { "route", "done" } => rintent = "TopCash"
    /\ rpc = "done" => ragents = << "nl2sql" >>

C10_Witness ==
  /\ rquery = TopCashBalances
  /\ rpc = "done"
  /\ Matches(rquery)["CashBalance"] > 0
  /\ rintent = "TopCash"
  /\ ragents = << "nl2sql" >>

\* C11: a text in which no keyword phrase occurs is given ExecSummary, and
\* a text that is given ExecSummary either has no match at all or has
\* ExecSummary among the intents with the most matches.
C11_DefaultOnlyWithoutMatch ==
  rpc \in { "route", "done" } =>
    LET leaders == Leaders(Matches(rquery))
    IN /\ leaders = {} => rintent = "ExecSummary"
       /\ rintent = "ExecSummary" =>
            \/ leaders = {}
            \/ \E t \in leaders : IntentType[t] = "ExecSummary"

\* a text without any keyword phrase got the default
C11_Witness ==
  /\ rpc = "done"
  /\ Leaders(Matches(rquery)) = {}
  /\ rintent = "ExecSummary"

\* C12: get_agent_routing returns, for every member of IntentType, a
\* non-empty list of agents among nl2sql, vector and api that is the
\* table's entry for it, and for a key without entry the list [nl2sql].
C12_RoutingTableLookup ==
  rpc \in { "done", "looked_up" } =>
    /\ ragents # << >>
    /\ Range(ragents) \subseteq { "nl2sql", "vector", "api" }
    /\ rintent \in IntentTypeValues => ragents = routing_map[rintent]
    /\ rintent \notin IntentTypeValues => ragents = << "nl2sql" >>

\* the lookup of a key without entry gave [nl2sql]
C12_Witness ==
  /\ rpc = "looked_up"
  /\ rintent \notin IntentTypeValues
  /\ ragents = << "nl2sql" >>

(***************************************************************************)
(* Properties of the sending side (SpecSend).                              *)
(***************************************************************************)
\* C16: publish and publish_response do not raise to their caller; a call
\* in which getting the sender, serializing or sending failed returns False
\* and leaves the transport as it was; a call returns True only when the
\* transport has accepted its message.
C16_PublishReturnsBool ==
  /\ spc # "raised"
  /\ spc = "returned" =>
       /\ sret \in BOOLEAN
       /\ scall.fault # "none" <=> sret = FALSE
       /\ sret = FALSE => Len(topic) = scall.before
       /\ sret = TRUE =>
            /\ Len(topic) = scall.before + 1
            /\ topic[Len(topic)] = scall.message

\* publish returned True, and then publish_response returned False because
\* serializing failed
C16_Witness ==
  /\ spc = "returned"
  /\ scall.fn = "publish_response"
  /\ scall.fault = "serialize"
  /\ sret = FALSE
  /\ Len(topic) = 1
  /\ "to_agents" \in DOMAIN topic[1]

\* C18 as stated: every request that is built and every request the
\* transport accepted names at least one agent in to_agents.
C18_ToAgentsNonEmpty ==
  /\ (scall.fn = "publish" => Len(scall.message.to_agents) >= 1)
  /\ \A i \in 1..Len(topic) :
       "to_agents" \in DOMAIN topic[i] => Len(topic[i].to_agents) >= 1

(***************************************************************************)
(* The wait for the agents, the order of the updates, the session record.  *)
(***************************************************************************)
\* the waits of the query have all ended
Settled == opc \in { "composing", "compose", "done" }

ArrivedAt(agent) ==
  LET w == CHOOSE w \in Waits : history.waits[w].agent = agent
  IN history.waits[w].delay

\* the first updates are the three status updates of lines 500-516
OpeningInOrder ==
  /\ Len(events) >= 1 => events[1] = Update("status", "processing", "orchestrator")
  /\ Len(events) >= 2 => events[2] = Update("status", "intent", "orchestrator")
  /\ Len(events) >= 3 => events[3] = Update("status", "routing", "orchestrator")

\* C23 as stated: the updates of a query come in their order of issue: the
\* status updates for processing, intent and routing first; the "partial"
\* update of an agent directly after that agent's "waiting" status, the
\* partial updates in the order in which the agents' results arrived; the
\* terminal update after every partial update.
C23_PartialsInArrivalOrder ==
  /\ OpeningInOrder
  /\ \A i \in EventTypes("partial") :
       /\ i > 3
       /\ events[i - 1] = Update("status", "waiting", events[i].agent)
       /\ \A t \in Terminals : i < t
       /\ \A j \in EventTypes("partial") :
            i < j => ArrivedAt(events[i].agent) <= ArrivedAt(events[j].agent)

\* the stream holds a partial update of the agent
HasPartial(agent) ==
  \E i \in EventTypes("partial") : events[i].agent = agent

\* C24: within one query every required agent is called exactly once and
\* awaited at most once, never again after a failure or a timeout; once the
\* wait for an agent timed out, no result of that agent is in the aggregate
\* and no partial update of it is in the stream, at any later point of the
\* query, even when the call would have returned by the time of the
\* terminal update.
C24_CalledOnceNoLateResult ==
  /\ opc \notin { "off", "start", "detect", "route", "fanout" } =>
       agent_tasks = target_agents
  /\ \A k, l \in 1..Len(agent_tasks) :
       agent_tasks[k] = agent_tasks[l] => k = l
  /\ Len(history.waits) <= Len(agent_tasks)
  /\ \A w \in Waits :
       LET wt == history.waits[w]
       IN /\ wt.agent = agent_tasks[w]
          /\ TimedOut(wt) =>
               /\ wt.agent \notin DOMAIN agent_results
               /\ ~HasPartial(wt.agent)
               /\ opc = "done" => wt.agent \notin DOMAIN history.aggregate

\* the query has ended; the wait for one of its two or more agents timed out
\* at the very second the call would have returned, and the stream holds a
\* partial update of another agent but none of that one
C24_Witness ==
  /\ opc = "done"
  /\ Len(agent_tasks) >= 2
  /\ \E w, v \in Waits :
       /\ TimedOut(history.waits[w])
       /\ history.waits[w].delay <= clock
       /\ ~HasPartial(history.waits[w].agent)
       /\ HasPartial(history.waits[v].agent)

\* the query's session record exists
HasRecord == QueryCorrelationId \in DOMAIN active_queries

\* the status of the query's session record
SessionStatus == active_queries[QueryCorrelationId].status

\* C25: a query has a session record of its own, created with status
\* "processing" before its first update is issued; the query writes no
\* record but its own, whatever other queries have records; the status of
\* its record changes only from "processing" to "complete" or to "error",
\* and not again after that; when the terminal update is issued the status
\* is "complete" exactly if the update is "complete" and "error" exactly if
\* it is "error".
C25_SessionRecord ==
  /\ [](/\ events # << >> => HasRecord
        /\ HasRecord => SessionStatus \in { "processing", "complete", "error" }
        /\ (HasRecord /\ Terminals = {}) => SessionStatus = "processing"
        /\ \A t \in Terminals :
             /\ SessionStatus = "complete" <=> events[t].type = "complete"
             /\ SessionStatus = "error" <=> events[t].type = "error")
  /\ [][/\ \A c \in DOMAIN active_queries \ { QueryCorrelationId } :
             /\ c \in DOMAIN active_queries'
             /\ active_queries'[c] = active_queries[c]
        /\ DOMAIN active_queries' \subseteq
             DOMAIN active_queries \cup { QueryCorrelationId }
        /\ (~HasRecord /\ HasRecord') =>
             /\ events = << >>
             /\ SessionStatus' = "processing"
        /\ (HasRecord /\ SessionStatus' # SessionStatus) =>
             /\ SessionStatus = "processing"
             /\ SessionStatus' \in { "complete", "error" }]_vars

\* the query ended with a "complete" update and its record says "complete",
\* while the record of another query is still "processing"
C25_Witness ==
  /\ opc = "done"
  /\ HasRecord
  /\ SessionStatus = "complete"
  /\ events[Len(events)].type = "complete"
  /\ OtherCorrelationId \in DOMAIN active_queries
  /\ active_queries[OtherCorrelationId].status = "processing"

\* C27 as stated: every request the orchestrator has published while
\* handling the query carries the correlation_id under which the query's
\* session record is stored.
C27_RequestCarriesQueryCorrelation ==
  \A k \in 1..Len(history.requests) :
    /\ history.requests[k].correlation_id \in DOMAIN active_queries
    /\ history.requests[k].correlation_id = QueryCorrelationId

\* create_broker("<agent>-agent"): the name of the agent's service
ServiceName(agent) == agent \o "-agent"

\* C28 as stated: the routing table and the handler registries agree: for
\* every intent and every agent that get_agent_routing lists for it, the
\* agent's service registers a handler for that intent.
C28_RoutedAgentsRegisterHandler ==
  (rpc \in { "done", "looked_up" } /\ rintent \in IntentTypeValues) =>
    \A k \in 1..Len(ragents) :
      rintent \in RegisteredHandlers(ServiceName(ragents[k]))

(***************************************************************************)
(* Responses on the request path, settlement, the loop's order.            *)
(***************************************************************************)
\* the keys of A2AResponse.model_dump_json() (timestamp left out, as in
\* all bodies)
ResponseKeys ==
  { "message_id", "correlation_id", "from_agent", "to_agent", "status",
    "result", "error" }

\* the body is the JSON of an A2AResponse
ResponseBody(body) == IsJson(body) /\ DOMAIN body = ResponseKeys

\* C22: every response a broker builds and every response it published has
\* the shape of a Response; a delivery whose body has that shape goes to
\* the internal response handler and never down the request path: no
\* handler is invoked for it, no response is built or published for it, and
\* while it is processed the idempotency cache stays as it is.
C22_ResponseNeverOnRequestPath ==
  /\ [](/\ \A r \in published : ResponseBody(r)
        /\ \A i \in Deliveries :
             /\ log[i].response # NoResponse => ResponseBody(log[i].response)
             /\ ResponseBody(log[i].body) =>
                  /\ log[i].outcome = "response"
                  /\ ~HandlerInvoked(log[i])
                  /\ log[i].response = NoResponse
                  /\ log[i].sent = "none")
  /\ [][(cur # NoDelivery /\ ResponseBody(cur)) =>
          /\ processed_messages' = processed_messages
          /\ published' = published
          /\ uuid' = uuid]_vars

\* the broker handled a request and published its response; the response
\* came back to the broker's own subscription, went to the response handler
\* and was completed, with the cache entry of the request still in place
C22_Witness ==
  \E i, j \in Deliveries :
    /\ i < j
    /\ log[i].outcome = "handled"
    /\ log[i].sent = "ok"
    /\ log[j].body = log[i].response
    /\ log[j].outcome = "response"
    /\ log[j].settled = "complete"
    /\ log[i].body.message_id \in DOMAIN processed_messages

\* the loop is between _process_message's first step and the settlement of
\* the delivery in hand
InHand == pc \in { "handler", "respond", "settle" }

\* C26 as stated: every delivery the loop took and is done with has been
\* settled, by complete_message or by abandon_message.
C26_SettledExactlyOnce ==
  \A i \in Deliveries :
    (i < Len(log) \/ ~InHand) => log[i].settled \in { "complete", "abandon" }

\* C26, amended: every delivery is settled at most once, by complete_message
\* or by abandon_message and never by both, and a delivery the loop is done
\* with is unsettled only when abandon_message failed too and the loop has
\* stopped; a delivery is abandoned only at the settling step, when
\* complete_message failed, and is then delivered again; whatever
\* _process_message and publish_response met (an unparseable body, a request
\* for another agent, a duplicate, a missing handler, a handler's exception,
\* a response the transport refused), the loop goes on to the settling step,
\* and a completed delivery is not delivered again.
C26_SettledAtMostOnce ==
  /\ [](\A i \in Deliveries :
          /\ log[i].settled \in { "none", "complete", "abandon" }
          /\ log[i].settled = "none" =>
               /\ i = Len(log)
               /\ InHand \/ pc = "stopped")
  /\ [][/\ \A i \in Deliveries :
             /\ log[i].settled # "none" => log'[i].settled = log[i].settled
             /\ (log[i].settled = "none" /\ log'[i].settled = "abandon") =>
                  /\ pc = "settle"
                  /\ queue' = Append(queue, log[i].body)
             /\ (log[i].settled = "none" /\ log'[i].settled = "complete") =>
                  /\ pc = "settle"
                  /\ queue' = queue
        /\ pc \in { "process", "handler", "respond" } =>
             pc' \notin { "idle", "stopped" }]_vars

\* a handled delivery was abandoned because completing it failed, came
\* again, was dropped as a duplicate and completed; nothing is left to
\* deliver
C26_Witness ==
  /\ pc = "idle"
  /\ queue = << >>
  /\ \E i, j \in Deliveries :
       /\ i < j
       /\ log[i].outcome = "handled"
       /\ log[i].settled = "abandon"
       /\ log[j].body = log[i].body
       /\ log[j].outcome = "duplicate"
       /\ log[j].settled = "complete"

\* the transport accepted a SUCCESS response to a delivery of message_id
SuccessAccepted(message_id) ==
  \E i \in Deliveries :
    /\ "message_id" \in DOMAIN log[i].body
    /\ log[i].body.message_id = message_id
    /\ log[i].response # NoResponse
    /\ log[i].response.status = StatusSuccess
    /\ log[i].sent = "ok"
    /\ log[i].response \in published

\* C29 as stated: whenever the loop is done with its delivery and a
\* message_id is in the idempotency cache, the transport has accepted a
\* SUCCESS response for it: no message is recorded as processed while its
\* response was lost to a publish failure.
C29_CachedImpliesResponseAccepted ==
  ~InHand =>
    \A message_id \in DOMAIN processed_messages : SuccessAccepted(message_id)

\* C30: within one broker the deliveries are processed strictly one after
\* the other: the loop takes the next delivery only when the one before has
\* been processed, answered and settled (or not at all, once the loop has
\* stopped); so no two handler invocations overlap, and of two deliveries of
\* one message_id the second reaches the idempotency check only after the
\* first's handler has ended and, if it returned, its message_id is marked.
C30_StrictlySequential ==
  /\ [](/\ \A i \in Deliveries :
             /\ i < Len(log) =>
                  /\ log[i].outcome # "invoked"
                  /\ log[i].settled # "none"
                  /\ log[i].response # NoResponse => log[i].sent # "none"
             /\ log[i].outcome = "invoked" => pc = "handler"
        /\ \A i, j \in Deliveries :
             (i < j /\ HandlerInvoked(log[i]) /\ HandlerInvoked(log[j])) =>
               /\ log[i].done_at <= log[j].at
               /\ log[i].outcome = "handled" =>
                    \/ log[i].body.message_id # log[j].body.message_id
                    \/ ~(log[i].done_at > Cutoff(log[j].at)))
  /\ [][(cur' # cur /\ cur' # NoDelivery) =>
          /\ pc = "idle"
          /\ cur = NoDelivery
          /\ response = NoResponse]_vars

\* a handler runs for a request while a second delivery of the same request
\* waits in the subscription
C30_Witness ==
  /\ pc = "handler"
  /\ log[Len(log)].outcome = "invoked"
  /\ queue # << >>
  /\ Head(queue) = cur

====
